---- MODULE Spec2Model ----
(***************************************************************************)
(* Connection and session management of the device-telemetry backend:      *)
(* the WebSocketManager (backend/websocket/handler.py), the SessionManager *)
(* (backend/devices/manager.py) and the two WebSocket endpoints            *)
(* (backend/main.py).                                                      *)
(*                                                                         *)
(* All handlers are coroutines on one asyncio event loop: the code between *)
(* two awaits runs atomically.  Every action below is one such segment: it *)
(* starts when the awaited operation of a handler completes (or raises)    *)
(* and runs the handler, and every function it calls, up to the next await.*)
(***************************************************************************)
EXTENDS Integers, FiniteSets, Sequences, TLC

\* ------------------------------------------------------------------ bounds
NumIds    == 2      \* device identities
NumConns  == 2      \* invocations of websocket_device (one socket each)
NumAdmins == 2      \* invocations of websocket_admin (one socket each)
MaxCmds   == 1      \* commands each admin connection issues
MaxMsgs   == 2      \* messages each device sends in its receive loop
MaxTime   == 2      \* clock ticks

\* Python's None (main.py: device_id = None).
None == 0

Ids     == 1..NumIds
Conns   == 1..NumConns
Admins  == 1..NumAdmins
\* The REST caller of POST /api/devices/{id}/command (devices/router.py).
Rest    == {NumAdmins + 1}
Callers == Admins \cup Rest

EventTypes == {"connected", "disconnected", "command_sent", "system_info"}

VARIABLES
  \* ---- WebSocketManager (handler.py:27-29)
  device_connections,  \* dict device_id -> the connection's socket
  admin_connections,   \* set of admin sockets
  \* ---- SessionManager (manager.py:12-13)
  sessions,            \* dict device_id -> DeviceSession
  \* ---- Record Store (storage/database.py)
  devices,             \* table of device profiles: device_id -> token
  tokCtr,              \* tokens generated so far (generate_device_token)
  events,              \* device_events rows, counted per <<device_id, type>>
  \* ---- clock (datetime.utcnow)
  now,
  \* ---- transport
  sockOpen,            \* device socket c is open and healthy
  adminOpen,           \* admin socket a is open and healthy
  devInbox,            \* command messages delivered on device socket c
  \* ---- websocket_device(c): position and locals
  pc,
  devId,               \* local device_id (None until line 104 / 137)
  seen,                \* existing_device / db_device was found
  msgCount,            \* local message_count
  \* ---- broadcast_to_admins as run by handler c: its locals
  bcUsed,              \* the set iterator's size stamp (si_used)
  bcVisited,           \* elements the iterator has yielded
  bcCur,               \* admin_ws whose send_json is awaited
  bcFailed,            \* the list `disconnected`
  bcInit,              \* the set when the iterator was created
  bcGot,               \* history: admins this broadcast delivered to
  \* ---- websocket_admin(a) and the REST caller: position and locals
  apc,
  cmdDev,              \* device_id of the send_command in progress
  cmdConn,             \* conn looked up at handler.py:254
  cmdRet,              \* return value of the last send_command
  cmdCount,            \* send_command calls made
  \* ---- history of the last send_command call of each caller
  cmdSentOn,           \* socket the command was delivered on (None: none)
  cmdLogged,           \* command_sent events the call appended
  cmdRegCall,          \* socket registered for device_id when the call began
  cmdRegSend,          \* socket registered for device_id when it was delivered
  \* ---- history per device connection
  reached,             \* connections stored in device_connections (Registered)
  tornBy,              \* handler whose disconnect_device removed c's entry
  discEvt,             \* "disconnected" events appended by handler c
  discBc,              \* device_disconnected broadcasts completed by handler c
  bcErr,               \* handlers out of whose broadcast_to_admins an error came
  \* ---- connect_admin(a): local
  snap,                \* the list `devices` sent as the device_list snapshot
  \* ---- handle_device_message as run by handler c, and the tables it fills
  msg,                 \* the message being handled
  bcMsg,               \* the message handed to broadcast_to_admins for it
  camera_frames,       \* table camera_frames, rows in insertion order
  location_history,    \* table location_history, rows in insertion order
  dropped,             \* history: messages of handler c whose decode or persist failed
  msgType              \* history: msg_type of handler c's latest message if
                       \* handle_device_message handled it itself ("ping",
                       \* "unknown"), "none" if it did not

hubVars   == <<device_connections, admin_connections>>
storeVars == <<devices, tokCtr, events>>
netVars   == <<sockOpen, adminOpen, devInbox>>
devVars   == <<pc, devId, seen, msgCount>>
bcVars    == <<bcUsed, bcVisited, bcCur, bcFailed, bcInit, bcGot>>
admVars   == <<apc, cmdDev, cmdConn, cmdRet, cmdCount>>
cmdHist   == <<cmdSentOn, cmdLogged, cmdRegCall, cmdRegSend>>
devHist   == <<reached, tornBy, discEvt, discBc, bcErr>>
telVars   == <<msg, bcMsg, camera_frames, location_history, dropped, msgType>>

vars == <<hubVars, sessions, storeVars, now, netVars, devVars, bcVars,
          admVars, cmdHist, devHist, snap, telVars>>

Terminal == {"closed", "done", "crashed"}

\* ----------------------------------------------------------------- helpers
\* del d[k]
Remove(f, k) == [x \in DOMAIN f \ {k} |-> f[x]]
\* d[k] = v
Put(f, k, v) == [x \in DOMAIN f \cup {k} |-> IF x = k THEN v ELSE f[x]]

\* storage.log_device_event: one more row of that type for the device.
LogEvent(ev, id, type) == [ev EXCEPT ![<<id, type>>] = @ + 1]

\* storage.create_device: a new row with the generated token.
CreateDevice(db, id, token) == Put(db, id, token)

\* update_device as it would be if it cleared every column for which the
\* caller passed no value.
UpdateDeviceReset(db, id, kwargs) ==
  IF id \in DOMAIN db
  THEN [db EXCEPT ![id] = IF "token" \in DOMAIN kwargs THEN kwargs.token ELSE None]
  ELSE db

\* storage.update_device(device_id, **kwargs): the columns named in kwargs
\* with a value other than None are set on the identity's row, if there is
\* one.  Of the columns only the token is kept here.
UpdateDevice(db, id, kwargs) ==
  IF id \in DOMAIN db /\ "token" \in DOMAIN kwargs /\ kwargs.token # None
  THEN [db EXCEPT ![id] = kwargs.token]
  ELSE db

\* manager.py:23-31 and main.py:164-172: the keyword arguments a
\* registration passes to update_device (name, imei, model, manufacturer,
\* android_version, sdk), none of them the token.
DeviceAttrs == [name |-> "device"]

\* No message in hand (the local is unbound).
NoMessage == [type |-> "none"]

\* Optional[Dict] location of a session: None.
NoLocation == << >>

\* models.py:18-31, manager.py:57-65: DeviceSession(connected_at = now,
\* last_activity = now) with the defaults of the other fields.
NewSession(t) ==
  [connected_at |-> t, last_activity |-> t, is_online |-> TRUE,
   current_camera |-> "back", location |-> NoLocation, battery_level |-> None]

\* register_device as it would be if it built a new DeviceSession on every
\* call.
RegisterSessionFresh(ss, id, t) ==
  Put(ss, id, NewSession(t))

\* SessionManager.register_device, the in-memory part.
RegisterSession(ss, id, t) ==
  IF id \in DOMAIN ss
  THEN [ss EXCEPT ![id].last_activity = t, ![id].is_online = TRUE]
  ELSE Put(ss, id, NewSession(t))

\* SessionManager.disconnect_device
MarkOffline(ss, id) ==
  IF id \in DOMAIN ss THEN [ss EXCEPT ![id].is_online = FALSE] ELSE ss

\* SessionManager.get_all_devices / get_online_devices, as identity sets.
get_all_devices == DOMAIN sessions
get_online_devices == {i \in DOMAIN sessions : sessions[i].is_online}

\* DeviceConnection(device_id, name, websocket) with last_seen = utcnow().
DeviceConnection(c, t) == [websocket |-> c, last_seen |-> t]

\* connect_device as it would be if it rebuilt the map around the new entry.
StoreConnectionAlone(dc, id, conn) == [x \in {id} |-> conn]

\* handler.py:38-40: self.device_connections[device_info.id] = conn
StoreConnection(dc, id, conn) == Put(dc, id, conn)

\* A write on device socket s succeeds: the peer has not closed it and the
\* endpoint that owns it is still running.
SockWritable(s) == sockOpen[s] /\ pc[s] \notin Terminal

\* What send_command returns to: the admin's receive loop, or the REST route.
Return(p) == IF p \in Admins THEN "loop" ELSE "done"

\* ------------------------------------------------------ broadcast_to_admins
\* The first iteration of `for admin_ws in self.admin_connections` by handler
\* c: with no admin the call returns at once and the handler goes on to
\* `cont`, otherwise the first send_json is awaited at `at`.  Set iteration
\* order is arbitrary.
BcStart(c, at, cont) ==
  /\ admin_connections' = admin_connections
  /\ bcUsed' = [bcUsed EXCEPT ![c] = Cardinality(admin_connections)]
  /\ bcInit' = [bcInit EXCEPT ![c] = admin_connections]
  /\ bcFailed' = [bcFailed EXCEPT ![c] = {}]
  /\ bcGot' = [bcGot EXCEPT ![c] = {}]
  /\ IF admin_connections = {}
     THEN /\ pc' = [pc EXCEPT ![c] = cont]
          /\ bcVisited' = [bcVisited EXCEPT ![c] = {}]
          /\ bcCur' = [bcCur EXCEPT ![c] = None]
     ELSE \E a \in admin_connections :
            /\ pc' = [pc EXCEPT ![c] = at]
            /\ bcVisited' = [bcVisited EXCEPT ![c] = {a}]
            /\ bcCur' = [bcCur EXCEPT ![c] = a]

\* ------------------------------------- WebSocketManager.disconnect_device
\* disconnect_device as it would be if it marked the session offline without
\* looking for the identity in the device map.
DiscEnterUnguarded(c) ==
  LET id == devId[c] IN
  IF id \in DOMAIN device_connections
  THEN /\ device_connections' = Remove(device_connections, id)
       /\ sessions' = MarkOffline(sessions, id)
       /\ tornBy' = [tornBy EXCEPT ![device_connections[id].websocket] = c]
       /\ discBc' = IF admin_connections = {}
                    THEN [discBc EXCEPT ![c] = @ + 1] ELSE discBc
       /\ BcStart(c, "dd_bcast", "dd_log")
  ELSE /\ pc' = [pc EXCEPT ![c] = "done"]
       /\ sessions' = MarkOffline(sessions, id)
       /\ UNCHANGED <<hubVars, bcVars, tornBy, discBc>>

\* Called from the except clauses of websocket_device with the local
\* device_id: the call up to its first await.
DiscEnter(c) ==
  LET id == devId[c] IN
  IF id \in DOMAIN device_connections
  THEN /\ device_connections' = Remove(device_connections, id)
       /\ sessions' = MarkOffline(sessions, id)
       /\ tornBy' = [tornBy EXCEPT ![device_connections[id].websocket] = c]
       /\ discBc' = IF admin_connections = {}
                    THEN [discBc EXCEPT ![c] = @ + 1] ELSE discBc
       /\ BcStart(c, "dd_bcast", "dd_log")
  ELSE /\ pc' = [pc EXCEPT ![c] = "done"]
       /\ UNCHANGED <<hubVars, sessions, bcVars, tornBy, discBc>>

\* --------------------------------------------------------- websocket_device
\* main.py:72-84, 105-108: accept; with a token look the device up, without
\* one wait for the registration message.  Connections are numbered in the
\* order in which they are accepted.
WsAccept(c) ==
  /\ pc[c] = "start"
  /\ IF c = 1 THEN TRUE ELSE pc[c - 1] # "start"
  /\ \E p \in {"tok_get", "reg_recv"} : pc' = [pc EXCEPT ![c] = p]
  /\ UNCHANGED <<hubVars, sessions, storeVars, now, netVars, devId, seen,
                 msgCount, bcVars, admVars, cmdHist, devHist>>
  /\ UNCHANGED <<snap, telVars>>

\* main.py:86-104, 177-178 and handler.py:33: get_device_by_token returns.
\* A token that matches no profile closes the socket with 1008; a Record
\* Store error is caught at main.py:206 with device_id still None.
TokLookup(c) ==
  /\ pc[c] = "tok_get"
  /\ \/ /\ pc' = [pc EXCEPT ![c] = "closed"]
        /\ devId' = devId
     \/ \E id \in DOMAIN devices :
          /\ devId' = [devId EXCEPT ![c] = id]
          /\ pc' = [pc EXCEPT ![c] = "cd_accept"]
  /\ UNCHANGED <<hubVars, sessions, storeVars, now, netVars, seen,
                 msgCount, bcVars, admVars, cmdHist, devHist>>
  /\ UNCHANGED <<snap, telVars>>

\* main.py:108-144: the first message arrives.  A disconnect, an undecodable
\* message, a type other than "register" or an invalid device_info end the
\* handler with device_id None; a registration for `id` goes on to
\* storage.get_device.
RegRecv(c) ==
  /\ pc[c] = "reg_recv"
  /\ \/ /\ pc' = [pc EXCEPT ![c] = "closed"]
        /\ devId' = devId
     \/ /\ sockOpen[c]
        /\ \E id \in Ids :
             /\ devId' = [devId EXCEPT ![c] = id]
             /\ pc' = [pc EXCEPT ![c] = "reg_get"]
  /\ UNCHANGED <<hubVars, sessions, storeVars, now, netVars, seen,
                 msgCount, bcVars, admVars, cmdHist, devHist>>
  /\ UNCHANGED <<snap, telVars>>

\* main.py:144-145: storage.get_device returns, or raises into main.py:206.
RegGet(c) ==
  /\ pc[c] = "reg_get"
  /\ \/ /\ seen' = [seen EXCEPT ![c] = devId[c] \in DOMAIN devices]
        /\ pc' = [pc EXCEPT ![c] = "reg_write"]
        /\ UNCHANGED <<hubVars, sessions, bcVars, devHist>>
     \/ /\ DiscEnter(c)
        /\ UNCHANGED <<seen, reached, discEvt, bcErr>>
  /\ UNCHANGED <<storeVars, now, netVars, devId, msgCount, admVars, cmdHist>>
  /\ UNCHANGED <<snap, telVars>>

\* main.py:145-178 and handler.py:33: create_device (a second row for the
\* same primary key is refused) or update_device returns, or raises.
RegWrite(c) ==
  /\ pc[c] = "reg_write"
  /\ \/ /\ ~seen[c]
        /\ devId[c] \notin DOMAIN devices
        /\ devices' = CreateDevice(devices, devId[c], tokCtr + 1)
        /\ tokCtr' = tokCtr + 1
        /\ pc' = [pc EXCEPT ![c] = "cd_accept"]
        /\ UNCHANGED <<hubVars, sessions, bcVars, devHist>>
     \/ /\ seen[c]
        /\ devices' = UpdateDevice(devices, devId[c], DeviceAttrs)
        /\ pc' = [pc EXCEPT ![c] = "cd_accept"]
        /\ UNCHANGED <<tokCtr, hubVars, sessions, bcVars, devHist>>
     \/ /\ DiscEnter(c)
        /\ UNCHANGED <<devices, tokCtr, reached, discEvt, bcErr>>
  /\ UNCHANGED <<events, now, netVars, devId, seen, msgCount, admVars, cmdHist>>
  /\ UNCHANGED <<snap, telVars>>

\* handler.py:33-36 and manager.py:19: the second accept on the socket
\* returns, or raises into main.py:206; then register_device starts.
CdAccept(c) ==
  /\ pc[c] = "cd_accept"
  /\ \/ /\ pc' = [pc EXCEPT ![c] = "rd_get"]
        /\ UNCHANGED <<hubVars, sessions, bcVars, devHist>>
     \/ /\ DiscEnter(c)
        /\ UNCHANGED <<reached, discEvt, bcErr>>
  /\ UNCHANGED <<storeVars, now, netVars, devId, seen, msgCount, admVars, cmdHist>>
  /\ UNCHANGED <<snap, telVars>>

\* manager.py:19-21: storage.get_device returns, or raises.
RdGet(c) ==
  /\ pc[c] = "rd_get"
  /\ \/ /\ seen' = [seen EXCEPT ![c] = devId[c] \in DOMAIN devices]
        /\ pc' = [pc EXCEPT ![c] = "rd_write"]
        /\ UNCHANGED <<hubVars, sessions, bcVars, devHist>>
     \/ /\ DiscEnter(c)
        /\ UNCHANGED <<seen, reached, discEvt, bcErr>>
  /\ UNCHANGED <<storeVars, now, netVars, devId, msgCount, admVars, cmdHist>>
  /\ UNCHANGED <<snap, telVars>>

\* manager.py:21-69: update_device or create_device returns, the in-memory
\* session is created or refreshed with the time read at line 48, and the
\* "connected" event is handed to the store; or the store call raises.
RdWrite(c) ==
  /\ pc[c] = "rd_write"
  /\ \/ /\ \/ /\ ~seen[c]
              /\ devId[c] \notin DOMAIN devices
              /\ devices' = CreateDevice(devices, devId[c], tokCtr + 1)
              /\ tokCtr' = tokCtr + 1
           \/ /\ seen[c]
              /\ devices' = UpdateDevice(devices, devId[c], DeviceAttrs)
              /\ UNCHANGED tokCtr
        /\ sessions' = RegisterSession(sessions, devId[c], now)
        /\ pc' = [pc EXCEPT ![c] = "rd_log"]
        /\ UNCHANGED <<hubVars, bcVars, devHist>>
     \/ /\ DiscEnter(c)
        /\ UNCHANGED <<devices, tokCtr, reached, discEvt, bcErr>>
  /\ UNCHANGED <<events, now, netVars, devId, seen, msgCount, admVars, cmdHist>>
  /\ UNCHANGED <<snap, telVars>>

\* manager.py:69-71 and handler.py:38-46: log_device_event returns, the
\* connection is stored under its identity and device_connected is
\* broadcast; or log_device_event raises.
RdLog(c) ==
  /\ pc[c] = "rd_log"
  /\ \/ /\ events' = LogEvent(events, devId[c], "connected")
        /\ device_connections' =
             StoreConnection(device_connections, devId[c],
                             DeviceConnection(c, now))
        /\ reached' = reached \cup {c}
        /\ BcStart(c, "cd_bcast", "recv")
        /\ UNCHANGED <<sessions, tornBy, discEvt, discBc, bcErr>>
     \/ /\ DiscEnter(c)
        /\ UNCHANGED <<events, reached, discEvt, bcErr>>
  /\ UNCHANGED <<devices, tokCtr, now, netVars, devId, seen, msgCount, admVars, cmdHist>>
  /\ UNCHANGED <<snap, telVars>>

\* handler.py:271-280 (and what follows the call): the awaited send_json to
\* bcCur[c] returns or raises, and the iterator is asked for the next admin.
\* The iterator raises RuntimeError when the set's size differs from the
\* size at its creation; that error leaves broadcast_to_admins.  Out of
\* connect_device it is caught at main.py:206, which calls
\* disconnect_device; out of disconnect_device, called in an except clause,
\* it ends the endpoint; out of a message handler it is caught by the
\* handler's own except clause (handler.py:162, 203, 242) and the receive
\* loop goes on.  An admin added during the iteration may or may not be
\* yielded.  After the last admin the failed ones are discarded.
BcStep(c) ==
  /\ pc[c] \in {"cd_bcast", "dd_bcast", "tm_bcast"}
  /\ LET a == bcCur[c]
         failed == IF adminOpen[a] THEN bcFailed[c] ELSE bcFailed[c] \cup {a}
         got == IF adminOpen[a] THEN bcGot[c] \cup {a} ELSE bcGot[c]
         rest == admin_connections \ bcVisited[c]
     IN
     IF Cardinality(admin_connections) # bcUsed[c]
     THEN /\ bcErr' = bcErr \cup {c}
          /\ IF pc[c] = "cd_bcast"
             THEN DiscEnter(c)
             ELSE /\ pc' = [pc EXCEPT ![c] =
                              IF pc[c] = "dd_bcast" THEN "crashed" ELSE "recv"]
                  /\ bcFailed' = [bcFailed EXCEPT ![c] = failed]
                  /\ bcGot' = [bcGot EXCEPT ![c] = got]
                  /\ UNCHANGED <<hubVars, sessions, bcUsed, bcVisited, bcCur,
                                 bcInit, tornBy, discBc>>
     ELSE /\ bcFailed' = [bcFailed EXCEPT ![c] = failed]
          /\ bcGot' = [bcGot EXCEPT ![c] = got]
          /\ \/ \E b \in rest :
                  /\ bcVisited' = [bcVisited EXCEPT ![c] = @ \cup {b}]
                  /\ bcCur' = [bcCur EXCEPT ![c] = b]
                  /\ UNCHANGED <<pc, admin_connections, discBc>>
             \/ /\ rest \cap bcInit[c] = {}
                /\ admin_connections' = admin_connections \ failed
                /\ pc' = [pc EXCEPT ![c] =
                            IF pc[c] = "dd_bcast" THEN "dd_log" ELSE "recv"]
                /\ discBc' = IF pc[c] = "dd_bcast"
                             THEN [discBc EXCEPT ![c] = @ + 1] ELSE discBc
                /\ UNCHANGED <<bcVisited, bcCur>>
          /\ UNCHANGED <<device_connections, sessions, bcUsed, bcInit,
                         tornBy, bcErr>>
  /\ IF pc[c] = "tm_bcast" /\ pc'[c] # "tm_bcast"
     THEN /\ msg' = [msg EXCEPT ![c] = NoMessage]
          /\ bcMsg' = [bcMsg EXCEPT ![c] = NoMessage]
     ELSE UNCHANGED <<msg, bcMsg>>
  /\ UNCHANGED <<storeVars, now, netVars, devId, seen, msgCount, admVars,
                 cmdHist, reached, discEvt, snap, camera_frames,
                 location_history, dropped, msgType>>

\* handler.py:70-72: log_device_event("disconnected") returns and the
\* endpoint ends; or it raises out of the except clause.
DdLog(c) ==
  /\ pc[c] = "dd_log"
  /\ \/ /\ events' = LogEvent(events, devId[c], "disconnected")
        /\ discEvt' = [discEvt EXCEPT ![c] = @ + 1]
        /\ pc' = [pc EXCEPT ![c] = "done"]
     \/ /\ pc' = [pc EXCEPT ![c] = "crashed"]
        /\ UNCHANGED <<events, discEvt>>
  /\ UNCHANGED <<hubVars, sessions, devices, tokCtr, now, netVars, devId,
                 seen, msgCount, bcVars, admVars, cmdHist, reached, tornBy,
                 discBc, bcErr>>
  /\ UNCHANGED <<snap, telVars>>

\* The receive loop as it would be if it handled every message in a coroutine of
\* its own: the next message is taken while the broadcast for the previous
\* one is still going on.
ReceivePointsEager == {"recv", "tm_bcast"}

\* main.py:183-188: handle_device_message is awaited inside the loop, so
\* receive_text is called again only when the handler of the previous
\* message has returned.
ReceivePoints == {"recv"}

\* handler.py:103-106: a ping sets last_seen of the DeviceConnection stored
\* for the identity, if there is one.
Ping(dc, id, t) ==
  IF id \in DOMAIN dc THEN [dc EXCEPT ![id].last_seen = t] ELSE dc

\* handle_device_message as it would be if it unregistered a device that
\* sent a message of an unknown type.
UnknownMessageUnregister(dc, id) == Remove(dc, id)

\* handler.py:107-113: a message of any other type, or of none, is printed.
UnknownMessage(dc, id) == dc

\* main.py:183-188 and handler.py:93-113: a message arrives in the receive
\* loop.  A ping refreshes last_seen of the connection registered for the
\* identity; an unknown type is logged.
RecvMessage(c) ==
  /\ pc[c] \in ReceivePoints
  /\ sockOpen[c]
  /\ msgCount[c] < MaxMsgs
  /\ msgCount' = [msgCount EXCEPT ![c] = @ + 1]
  /\ \/ /\ msgType' = [msgType EXCEPT ![c] = "ping"]
        /\ device_connections' = Ping(device_connections, devId[c], now)
     \/ /\ msgType' = [msgType EXCEPT ![c] = "unknown"]
        /\ device_connections' = UnknownMessage(device_connections, devId[c])
  /\ UNCHANGED <<admin_connections, sessions, storeVars, now, netVars, pc, devId,
                 seen, bcVars, admVars, cmdHist, devHist>>
  /\ UNCHANGED <<snap, msg, bcMsg, camera_frames, location_history, dropped>>

\* main.py:185, 192-195: receive_text raises on the closed socket.  The
\* error, WebSocketDisconnect included, is an Exception and is caught by
\* the except clause inside the loop.
RecvClosed(c) ==
  /\ pc[c] = "recv"
  /\ ~sockOpen[c]
  /\ pc' = [pc EXCEPT ![c] = "loop_except"]
  /\ UNCHANGED <<hubVars, sessions, storeVars, now, netVars, devId, seen,
                 msgCount, bcVars, admVars, cmdHist, devHist>>
  /\ UNCHANGED <<snap, telVars>>

\* main.py:192-195, 183: the error is printed and the loop goes round.
LoopAgain(c) ==
  /\ pc[c] = "loop_except"
  /\ pc' = [pc EXCEPT ![c] = "recv"]
  /\ UNCHANGED <<hubVars, sessions, storeVars, now, netVars, devId, seen,
                 msgCount, bcVars, admVars, cmdHist, devHist>>
  /\ UNCHANGED <<snap, telVars>>

\* ---------------------------------------------- handle_device_message
\* camera_frame messages (models.py:34-40): two frames that differ in every
\* field, and one whose data is no valid base64.
FrameMsgs ==
  {[type |-> "camera_frame", camera |-> "front", data |-> "img",
    width |-> 1, height |-> 2, timestamp |-> 1],
   [type |-> "camera_frame", camera |-> "back", data |-> "img",
    width |-> 2, height |-> 1, timestamp |-> 2],
   [type |-> "camera_frame", camera |-> "back", data |-> "bad",
    width |-> 2, height |-> 1, timestamp |-> 2]}

\* location_update messages (models.py:43-48), in degrees: the corner of the
\* valid range, one degree beyond it in latitude or in longitude, and one
\* that lacks the required field lon.
LocMsgs ==
  {[type |-> "location_update", lat |-> 90, lon |-> -180],
   [type |-> "location_update", lat |-> 91, lon |-> -180],
   [type |-> "location_update", lat |-> 90, lon |-> -181],
   [type |-> "location_update", lat |-> 90]}

\* system_info messages: message["data"] with a battery level, and without
\* one (system_info.get("battery_level") is then None).
SysMsgs ==
  {[type |-> "system_info", battery_level |-> 50],
   [type |-> "system_info", battery_level |-> None]}

\* handler.py:122: base64.b64decode(frame.data) succeeds.
Decodable(m) == m.data # "bad"

\* handler.py:118-122, 171: the model validates the message (CameraFrame,
\* LocationUpdate: every required field is present) and the frame decodes.
WellFormed(m) ==
  IF m.type = "camera_frame" THEN Decodable(m)
  ELSE IF m.type = "location_update" THEN {"lat", "lon"} \subseteq DOMAIN m
  ELSE TRUE

\* database.py:98-129: the row save_camera_frame inserts.
FrameRow(id, m) ==
  [device_id |-> id, camera |-> m.camera, frame_data |-> m.data,
   width |-> m.width, height |-> m.height, timestamp |-> m.timestamp]

\* database.py:166-195: the row save_location inserts.
LocationRow(id, m) == [device_id |-> id, lat |-> m.lat, lon |-> m.lon]

\* _handle_camera_frame as it would be if it broadcast the frame it received.
FrameSummaryWhole(id, m) ==
  [type |-> "camera_frame", device_id |-> id, camera |-> m.camera,
   timestamp |-> m.timestamp, width |-> m.width, height |-> m.height,
   data |-> m.data]

\* handler.py:145-152: the message broadcast for a camera frame.
FrameSummary(id, m) ==
  [type |-> "camera_frame", device_id |-> id, camera |-> m.camera,
   timestamp |-> m.timestamp, width |-> m.width, height |-> m.height]

\* handler.py:188-192: the message broadcast for a location.
LocationEvent(id, m) ==
  [type |-> "location_update", device_id |-> id, location |-> <<m.lat, m.lon>>]

\* handler.py:223-227: the message broadcast for system info.
DeviceUpdate(id, m) ==
  [type |-> "device_update", device_id |-> id, data |-> m.battery_level]

\* manager.py:90-102: update_device_data(device_id, data): last_activity is
\* refreshed and the fields named in data are set, if the session exists.
UpdateDeviceData(ss, id, t, data) ==
  IF id \in DOMAIN ss
  THEN [ss EXCEPT ![id] =
          [f \in DOMAIN ss[id] |->
             IF f \in DOMAIN data THEN data[f]
             ELSE IF f = "last_activity" THEN t ELSE ss[id][f]]]
  ELSE ss

\* A message handler as it would be if a failed persist took the device's
\* session offline.
PersistFailedOffline(c) ==
  /\ pc' = [pc EXCEPT ![c] = "recv"]
  /\ msg' = [msg EXCEPT ![c] = NoMessage]
  /\ dropped' = [dropped EXCEPT ![c] = @ + 1]
  /\ sessions' = MarkOffline(sessions, devId[c])
  /\ UNCHANGED <<hubVars, events, bcVars, bcMsg, camera_frames,
                 location_history, bcErr>>

\* handler.py:162-166, 203-207, 242-246 and main.py:183: the decode or the
\* Record Store call raised; the handler's except clause prints the error
\* and the receive loop goes on.
PersistFailed(c) ==
  /\ pc' = [pc EXCEPT ![c] = "recv"]
  /\ msg' = [msg EXCEPT ![c] = NoMessage]
  /\ dropped' = [dropped EXCEPT ![c] = @ + 1]
  /\ UNCHANGED <<hubVars, sessions, events, bcVars, bcMsg, camera_frames,
                 location_history, bcErr>>

\* handler.py:145, 188, 223: broadcast_to_admins(m) is called by the message
\* handler of c; with no admin it returns at once and the loop goes on.
BroadcastFor(c, m) ==
  /\ BcStart(c, "tm_bcast", "recv")
  /\ IF admin_connections = {}
     THEN /\ msg' = [msg EXCEPT ![c] = NoMessage]
          /\ bcMsg' = [bcMsg EXCEPT ![c] = NoMessage]
     ELSE /\ bcMsg' = [bcMsg EXCEPT ![c] = m]
          /\ UNCHANGED msg
  /\ UNCHANGED <<device_connections, dropped, bcErr>>

\* main.py:185-188 and handler.py:97-102, 117-137, 170-180, 211-220: a
\* camera_frame, location_update or system_info message arrives.  The frame
\* is validated and decoded and save_camera_frame is awaited; the location
\* is validated (lat and lon are floats) and save_location is awaited; for
\* system info the session is updated and log_device_event is awaited.
RecvTelemetry(c) ==
  /\ pc[c] \in ReceivePoints
  /\ sockOpen[c]
  /\ msgCount[c] < MaxMsgs
  /\ msgCount' = [msgCount EXCEPT ![c] = @ + 1]
  /\ \E m \in FrameMsgs \cup LocMsgs \cup SysMsgs :
       /\ msgType' = [msgType EXCEPT ![c] = "none"]
       /\ IF ~WellFormed(m)
          THEN PersistFailed(c)
          ELSE /\ msg' = [msg EXCEPT ![c] = m]
               /\ pc' = [pc EXCEPT ![c] =
                           IF m.type = "camera_frame" THEN "cam_save"
                           ELSE IF m.type = "location_update" THEN "loc_save"
                           ELSE "sys_log"]
               /\ sessions' =
                    IF m.type = "system_info"
                    THEN UpdateDeviceData(sessions, devId[c], now,
                                          [battery_level |-> m.battery_level])
                    ELSE sessions
               /\ UNCHANGED <<hubVars, events, bcVars, bcMsg, camera_frames,
                              location_history, dropped, bcErr>>
  /\ UNCHANGED <<devices, tokCtr, now, netVars, devId, seen, admVars, cmdHist,
                 reached, tornBy, discEvt, discBc, snap>>

\* The receive loop as it would be without the except clause for
\* json.JSONDecodeError inside it: the error leaves the loop and the outer
\* clause disconnects the device.
RecvGarbledFatal(c) ==
  /\ pc[c] \in ReceivePoints
  /\ sockOpen[c]
  /\ msgCount[c] + dropped[c] < MaxMsgs
  /\ dropped' = [dropped EXCEPT ![c] = @ + 1]
  /\ msgType' = [msgType EXCEPT ![c] = "none"]
  /\ DiscEnter(c)
  /\ UNCHANGED <<storeVars, now, netVars, devId, seen, msgCount, admVars,
                 cmdHist, reached, discEvt, bcErr>>
  /\ UNCHANGED <<snap, msg, bcMsg, camera_frames, location_history>>

\* main.py:185-191: the text received is no JSON; json.loads raises, the
\* error is printed and the receive loop goes on.  message_count is not
\* incremented.
RecvGarbled(c) ==
  /\ pc[c] \in ReceivePoints
  /\ sockOpen[c]
  /\ msgCount[c] + dropped[c] < MaxMsgs
  /\ dropped' = [dropped EXCEPT ![c] = @ + 1]
  /\ msgType' = [msgType EXCEPT ![c] = "none"]
  /\ UNCHANGED <<hubVars, sessions, storeVars, now, netVars, devVars, bcVars,
                 admVars, cmdHist, devHist>>
  /\ UNCHANGED <<snap, msg, bcMsg, camera_frames, location_history>>

\* handler.py:130-152: save_camera_frame returns, the session's camera is
\* updated and the summary is broadcast; or save_camera_frame raises.
CamSave(c) ==
  /\ pc[c] = "cam_save"
  /\ \/ /\ camera_frames' = Append(camera_frames, FrameRow(devId[c], msg[c]))
        /\ sessions' = UpdateDeviceData(sessions, devId[c], now,
                                        [current_camera |-> msg[c].camera])
        /\ BroadcastFor(c, FrameSummary(devId[c], msg[c]))
        /\ UNCHANGED <<events, location_history>>
     \/ PersistFailed(c)
  /\ UNCHANGED <<devices, tokCtr, now, netVars, devId, seen, msgCount, admVars,
                 cmdHist, reached, tornBy, discEvt, discBc, snap, msgType>>

\* handler.py:174-192: save_location returns, the session's location is
\* updated and the location is broadcast; or save_location raises.
LocSave(c) ==
  /\ pc[c] = "loc_save"
  /\ \/ /\ location_history' =
             Append(location_history, LocationRow(devId[c], msg[c]))
        /\ sessions' = UpdateDeviceData(sessions, devId[c], now,
                          [location |-> <<msg[c].lat, msg[c].lon>>])
        /\ BroadcastFor(c, LocationEvent(devId[c], msg[c]))
        /\ UNCHANGED <<events, camera_frames>>
     \/ PersistFailed(c)
  /\ UNCHANGED <<devices, tokCtr, now, netVars, devId, seen, msgCount, admVars,
                 cmdHist, reached, tornBy, discEvt, discBc, snap, msgType>>

\* handler.py:220-227: log_device_event("system_info") returns and
\* device_update is broadcast; or it raises.
SysLog(c) ==
  /\ pc[c] = "sys_log"
  /\ \/ /\ events' = LogEvent(events, devId[c], "system_info")
        /\ BroadcastFor(c, DeviceUpdate(devId[c], msg[c]))
        /\ UNCHANGED <<sessions, camera_frames, location_history>>
     \/ PersistFailed(c)
  /\ UNCHANGED <<devices, tokCtr, now, netVars, devId, seen, msgCount, admVars,
                 cmdHist, reached, tornBy, discEvt, discBc, snap, msgType>>

\* The device closes its socket, or the transport breaks.
DeviceClose(c) ==
  /\ sockOpen[c]
  /\ pc[c] \notin Terminal \cup {"start"}
  /\ sockOpen' = [sockOpen EXCEPT ![c] = FALSE]
  /\ UNCHANGED <<hubVars, sessions, storeVars, now, adminOpen, devInbox,
                 devVars, bcVars, admVars, cmdHist, devHist>>
  /\ UNCHANGED <<snap, telVars>>

\* ------------------------------------------------------------ send_command
\* The socket registered for the identity (None: no entry); history only.
RegisteredSocket(id) ==
  IF id \in DOMAIN device_connections
  THEN device_connections[id].websocket ELSE None

\* handler.py:250: device_id in self.device_connections
HasConnection(dc, id) == id \in DOMAIN dc

\* send_command as it would be if it took a connection of the map without
\* regard to the identity asked for.
LookupConnAny(dc, id) == dc[CHOOSE k \in DOMAIN dc : \A j \in DOMAIN dc : j <= k].websocket

\* handler.py:254: conn = self.device_connections[device_id]
LookupConn(dc, id) == dc[id].websocket

\* send_command as it would be if it recorded the command and reported
\* success without a connection.
CmdAbsentLogged(p) ==
  /\ cmdRet' = [cmdRet EXCEPT ![p] = "true"]
  /\ cmdConn' = [cmdConn EXCEPT ![p] = None]
  /\ apc' = [apc EXCEPT ![p] = Return(p)]
  /\ events' = LogEvent(events, cmdDev'[p], "command_sent")
  /\ UNCHANGED <<hubVars, sessions, devices, tokCtr, netVars>>

\* handler.py:250-251: no connection for the identity: return False.
CmdAbsent(p) ==
  /\ cmdRet' = [cmdRet EXCEPT ![p] = "false"]
  /\ cmdConn' = [cmdConn EXCEPT ![p] = None]
  /\ apc' = [apc EXCEPT ![p] = Return(p)]
  /\ UNCHANGED <<hubVars, sessions, storeVars, netVars>>

\* handler.py:253-259: the connection is looked up and send_json is awaited.
CmdLookup(p, id) ==
  /\ cmdRet' = [cmdRet EXCEPT ![p] = "none"]
  /\ cmdConn' = [cmdConn EXCEPT ![p] = LookupConn(device_connections, id)]
  /\ apc' = [apc EXCEPT ![p] = "cmd_send"]
  /\ UNCHANGED <<hubVars, sessions, storeVars, netVars>>

\* handler.py:248-259: send_command(id, command) up to its first await.
CmdCall(p, id) ==
  /\ cmdCount' = [cmdCount EXCEPT ![p] = @ + 1]
  /\ cmdDev' = [cmdDev EXCEPT ![p] = id]
  /\ cmdSentOn' = [cmdSentOn EXCEPT ![p] = None]
  /\ cmdLogged' = [cmdLogged EXCEPT ![p] = 0]
  /\ cmdRegCall' = [cmdRegCall EXCEPT ![p] = RegisteredSocket(id)]
  /\ cmdRegSend' = [cmdRegSend EXCEPT ![p] = None]
  /\ IF HasConnection(device_connections, id)
     THEN CmdLookup(p, id)
     ELSE CmdAbsent(p)
  /\ UNCHANGED <<now, devVars, bcVars, devHist>>
  /\ UNCHANGED <<snap, telVars>>

\* send_command as it would be if a failed write unregistered the device.
CmdSendFailedUnregister(p) ==
  /\ cmdRet' = [cmdRet EXCEPT ![p] = "false"]
  /\ apc' = [apc EXCEPT ![p] = Return(p)]
  /\ device_connections' = Remove(device_connections, cmdDev[p])
  /\ sessions' = MarkOffline(sessions, cmdDev[p])
  /\ UNCHANGED <<admin_connections, storeVars, devInbox, cmdSentOn, cmdRegSend>>

\* handler.py:263-265: send_json raised: the error is printed and the call
\* returns False.
CmdSendFailed(p) ==
  /\ cmdRet' = [cmdRet EXCEPT ![p] = "false"]
  /\ apc' = [apc EXCEPT ![p] = Return(p)]
  /\ UNCHANGED <<hubVars, sessions, storeVars, devInbox, cmdSentOn, cmdRegSend>>

\* handler.py:255-265: send_json on the connection returns, and the
\* command_sent event is handed to the store; or it raises.
CmdSend(p) ==
  /\ apc[p] = "cmd_send"
  /\ LET s == cmdConn[p] IN
     IF SockWritable(s)
     THEN /\ devInbox' = [devInbox EXCEPT ![s] = @ + 1]
          /\ cmdSentOn' = [cmdSentOn EXCEPT ![p] = s]
          /\ cmdRegSend' = [cmdRegSend EXCEPT ![p] = RegisteredSocket(cmdDev[p])]
          /\ apc' = [apc EXCEPT ![p] = "cmd_log"]
          /\ UNCHANGED <<hubVars, sessions, storeVars, cmdRet>>
     ELSE CmdSendFailed(p)
  /\ UNCHANGED <<now, sockOpen, adminOpen, devVars, bcVars, cmdDev, cmdConn,
                 cmdCount, cmdLogged, cmdRegCall, devHist>>
  /\ UNCHANGED <<snap, telVars>>

\* handler.py:261-265: log_device_event returns and the call returns True;
\* or it raises and the call returns False.
CmdLog(p) ==
  /\ apc[p] = "cmd_log"
  /\ \/ /\ events' = LogEvent(events, cmdDev[p], "command_sent")
        /\ cmdLogged' = [cmdLogged EXCEPT ![p] = @ + 1]
        /\ cmdRet' = [cmdRet EXCEPT ![p] = "true"]
     \/ /\ cmdRet' = [cmdRet EXCEPT ![p] = "false"]
        /\ UNCHANGED <<events, cmdLogged>>
  /\ apc' = [apc EXCEPT ![p] = Return(p)]
  /\ UNCHANGED <<hubVars, sessions, devices, tokCtr, now, netVars, devVars,
                 bcVars, cmdDev, cmdConn, cmdCount, cmdSentOn, cmdRegCall, cmdRegSend,
                 devHist>>
  /\ UNCHANGED <<snap, telVars>>

\* devices/router.py:79-89: POST /api/devices/{device_id}/command.
RestCommand(p) ==
  /\ p \in Rest
  /\ apc[p] = "start"
  /\ \E id \in Ids : CmdCall(p, id)

\* --------------------------------------------------------- websocket_admin
\* connect_admin as it would be if the snapshot listed the online sessions
\* only.
SnapshotOnline(ss) == [i \in {j \in DOMAIN ss : ss[j].is_online} |-> ss[i]]

\* handler.py:80-83: [d.dict() for d in session_manager.get_all_devices()],
\* a copy of every session as it is at that moment.
Snapshot(ss) == ss

\* websocket_admin as it would be if it registered the observer before it
\* verified the session token.
AdminConnectUnverified(a) ==
  /\ apc[a] = "start"
  /\ IF a = 1 THEN TRUE ELSE apc[a - 1] # "start"
  /\ admin_connections' = admin_connections \cup {a}
  /\ \/ /\ apc' = [apc EXCEPT ![a] = "done"]
        /\ UNCHANGED snap
     \/ /\ apc' = [apc EXCEPT ![a] = "snapshot"]
        /\ snap' = [snap EXCEPT ![a] = Snapshot(sessions)]
  /\ UNCHANGED <<device_connections, sessions, storeVars, now, netVars,
                 devVars, bcVars, cmdDev, cmdConn, cmdRet, cmdCount, cmdHist,
                 devHist>>
  /\ UNCHANGED telVars

\* main.py:216-228 and handler.py:74-84: an invalid session token closes
\* the socket; otherwise the socket is accepted, added to the observer set
\* and the device_list snapshot is built and handed to send_json.
AdminConnect(a) ==
  /\ apc[a] = "start"
  /\ IF a = 1 THEN TRUE ELSE apc[a - 1] # "start"
  /\ \/ /\ apc' = [apc EXCEPT ![a] = "done"]
        /\ UNCHANGED <<admin_connections, snap>>
     \/ /\ admin_connections' = admin_connections \cup {a}
        /\ snap' = [snap EXCEPT ![a] = Snapshot(sessions)]
        /\ apc' = [apc EXCEPT ![a] = "snapshot"]
  /\ UNCHANGED <<device_connections, sessions, storeVars, now, netVars,
                 devVars, bcVars, cmdDev, cmdConn, cmdRet, cmdCount, cmdHist,
                 devHist>>
  /\ UNCHANGED telVars

\* handler.py:81-86 and main.py:231-232, 249-251: the snapshot's send_json
\* returns and the receive loop starts; or it raises and disconnect_admin
\* discards the socket.
AdminSnapshot(a) ==
  /\ apc[a] = "snapshot"
  /\ snap' = [snap EXCEPT ![a] = << >>]
  /\ IF adminOpen[a]
     THEN /\ apc' = [apc EXCEPT ![a] = "loop"]
          /\ UNCHANGED admin_connections
     ELSE /\ apc' = [apc EXCEPT ![a] = "done"]
          /\ admin_connections' = admin_connections \ {a}
  /\ UNCHANGED <<device_connections, sessions, storeVars, now, netVars,
                 devVars, bcVars, cmdDev, cmdConn, cmdRet, cmdCount, cmdHist,
                 devHist>>
  /\ UNCHANGED telVars

\* main.py:232-245: a command message arrives from the admin.
AdminCommand(a) ==
  /\ a \in Admins
  /\ apc[a] = "loop"
  /\ adminOpen[a]
  /\ cmdCount[a] < MaxCmds
  /\ \E id \in Ids : CmdCall(a, id)

\* main.py:232, 247-248 and handler.py:88-91: receive_text raises
\* WebSocketDisconnect and disconnect_admin discards the socket.
AdminDisconnect(a) ==
  /\ apc[a] = "loop"
  /\ ~adminOpen[a]
  /\ apc' = [apc EXCEPT ![a] = "done"]
  /\ admin_connections' = admin_connections \ {a}
  /\ UNCHANGED <<device_connections, sessions, storeVars, now, netVars,
                 devVars, bcVars, cmdDev, cmdConn, cmdRet, cmdCount, cmdHist,
                 devHist>>
  /\ UNCHANGED <<snap, telVars>>

\* The admin closes its socket, or the transport breaks.
AdminClose(a) ==
  /\ adminOpen[a]
  /\ apc[a] \notin {"start", "done"}
  /\ adminOpen' = [adminOpen EXCEPT ![a] = FALSE]
  /\ UNCHANGED <<hubVars, sessions, storeVars, now, sockOpen, devInbox,
                 devVars, bcVars, admVars, cmdHist, devHist>>
  /\ UNCHANGED <<snap, telVars>>

\* Time passes (datetime.utcnow is read as `now`).
Tick ==
  /\ now < MaxTime
  /\ now' = now + 1
  /\ UNCHANGED <<hubVars, sessions, storeVars, netVars, devVars, bcVars,
                 admVars, cmdHist, devHist>>
  /\ UNCHANGED <<snap, telVars>>

\* ------------------------------------------------------------ specification
\* The state after construction: empty maps (handler.py:27-29,
\* manager.py:12-13).  The Record Store holds the profile of identity 1,
\* registered earlier with its token; the other identities are unknown to it.
Init ==
  /\ device_connections = << >>
  /\ admin_connections = {}
  /\ sessions = << >>
  /\ devices = [i \in {1} |-> i]
  /\ tokCtr = NumIds
  /\ events = [k \in Ids \X EventTypes |-> 0]
  /\ now = 0
  /\ sockOpen = [c \in Conns |-> TRUE]
  /\ adminOpen = [a \in Admins |-> TRUE]
  /\ devInbox = [c \in Conns |-> 0]
  /\ pc = [c \in Conns |-> "start"]
  /\ devId = [c \in Conns |-> None]
  /\ seen = [c \in Conns |-> FALSE]
  /\ msgCount = [c \in Conns |-> 0]
  /\ bcUsed = [c \in Conns |-> 0]
  /\ bcVisited = [c \in Conns |-> {}]
  /\ bcCur = [c \in Conns |-> None]
  /\ bcFailed = [c \in Conns |-> {}]
  /\ bcInit = [c \in Conns |-> {}]
  /\ bcGot = [c \in Conns |-> {}]
  /\ apc = [p \in Callers |-> "start"]
  /\ cmdDev = [p \in Callers |-> None]
  /\ cmdConn = [p \in Callers |-> None]
  /\ cmdRet = [p \in Callers |-> "none"]
  /\ cmdCount = [p \in Callers |-> 0]
  /\ cmdSentOn = [p \in Callers |-> None]
  /\ cmdLogged = [p \in Callers |-> 0]
  /\ cmdRegCall = [p \in Callers |-> None]
  /\ cmdRegSend = [p \in Callers |-> None]
  /\ reached = {}
  /\ tornBy = [c \in Conns |-> None]
  /\ discEvt = [c \in Conns |-> 0]
  /\ discBc = [c \in Conns |-> 0]
  /\ bcErr = {}
  /\ snap = [a \in Admins |-> << >>]
  /\ msg = [c \in Conns |-> NoMessage]
  /\ bcMsg = [c \in Conns |-> NoMessage]
  /\ camera_frames = << >>
  /\ location_history = << >>
  /\ dropped = [c \in Conns |-> 0]
  /\ msgType = [c \in Conns |-> "none"]

DeviceStep(c) ==
  \/ WsAccept(c) \/ TokLookup(c) \/ RegRecv(c) \/ RegGet(c) \/ RegWrite(c)
  \/ CdAccept(c) \/ RdGet(c) \/ RdWrite(c) \/ RdLog(c) \/ BcStep(c)
  \/ DdLog(c) \/ RecvMessage(c) \/ RecvClosed(c) \/ LoopAgain(c)

\* An admin that only observes.
AdminObserve(a) ==
  AdminConnect(a) \/ AdminSnapshot(a) \/ AdminDisconnect(a)

\* An admin that also issues commands.
AdminStep(a) ==
  AdminObserve(a) \/ AdminCommand(a) \/ CmdSend(a) \/ CmdLog(a)

RestStep(p) == RestCommand(p) \/ CmdSend(p) \/ CmdLog(p)

\* Devices connecting, registering and disconnecting while one admin
\* observes and time passes.
Next ==
  \/ \E c \in Conns : DeviceStep(c) \/ DeviceClose(c)
  \/ AdminObserve(1) \/ AdminClose(1)
  \/ Tick

Spec == Init /\ [][Next]_vars

\* One device and every admin: the broadcasts.
NextBroadcast ==
  \/ DeviceStep(1) \/ DeviceClose(1)
  \/ \E a \in Admins : AdminObserve(a) \/ AdminClose(a)

SpecBroadcast == Init /\ [][NextBroadcast]_vars

\* The devices and one admin that issues commands over its socket.
NextCommand ==
  \/ \E c \in Conns : DeviceStep(c) \/ DeviceClose(c)
  \/ AdminStep(1) \/ AdminClose(1)

SpecCommand == Init /\ [][NextCommand]_vars

\* The devices, one admin that observes, and the REST route that issues a
\* command.
NextRest ==
  \/ \E c \in Conns : DeviceStep(c) \/ DeviceClose(c)
  \/ AdminObserve(1) \/ AdminClose(1)
  \/ \E p \in Rest : RestStep(p)

SpecRest == Init /\ [][NextRest]_vars

\* The handshake, connect_device and disconnect_device of a device endpoint.
ConnectStep(c) ==
  \/ WsAccept(c) \/ TokLookup(c) \/ RegRecv(c) \/ RegGet(c) \/ RegWrite(c)
  \/ CdAccept(c) \/ RdGet(c) \/ RdWrite(c) \/ RdLog(c) \/ BcStep(c)
  \/ DdLog(c)

\* The devices connecting and every admin: registrations and their
\* notifications.
NextNotify ==
  \/ \E c \in Conns : ConnectStep(c)
  \/ \E a \in Admins : AdminObserve(a) \/ AdminClose(a)

SpecNotify == Init /\ [][NextNotify]_vars

\* The message handlers of a device endpoint.
TelemetryStep(c) ==
  \/ RecvTelemetry(c) \/ RecvGarbled(c)
  \/ CamSave(c) \/ LocSave(c) \/ SysLog(c)

\* A device sending camera frames, locations and system info while the
\* other devices connect and one admin observes.
NextTelemetry ==
  \/ DeviceStep(1) \/ TelemetryStep(1) \/ DeviceClose(1)
  \/ \E c \in Conns \ {1} : ConnectStep(c)
  \/ AdminObserve(1) \/ AdminClose(1)

SpecTelemetry == Init /\ [][NextTelemetry]_vars

\* One device and one admin; the event loop runs every handler that can
\* proceed (a completed await resumes its coroutine).
NextFair ==
  \/ DeviceStep(1) \/ DeviceClose(1)
  \/ AdminObserve(1) \/ AdminClose(1)

FairSpec ==
  /\ Init
  /\ [][NextFair]_vars
  /\ WF_vars(DeviceStep(1))
  /\ WF_vars(AdminObserve(1))

\* ================================================================== claims
InBroadcast(c) == pc[c] \in {"cd_bcast", "dd_bcast", "tm_bcast"}
\* connect_device returned to websocket_device, which entered its loop.
Completed(c) ==
  pc[c] \in {"recv", "loop_except", "cam_save", "loc_save", "sys_log", "tm_bcast"}
CallOver(p) == cmdCount[p] > 0 /\ apc[p] \notin {"cmd_send", "cmd_log"}

\* C1: once the socket of a connection that reached Registered is closed,
\* the endpoint eventually runs its disconnect path and terminates.
C1_CloseLeadsToDisconnect ==
  \A c \in Conns : (c \in reached /\ ~sockOpen[c]) ~> (pc[c] \in Terminal)

\* C2: the registration of a connection is torn down only by that
\* connection's own disconnect, and when its endpoint has ended the entry
\* was removed, one device_disconnected broadcast was made and one
\* "disconnected" event was appended, each exactly once.
C2_DisconnectEffectsOnce ==
  \A c \in reached :
    /\ tornBy[c] \in {None, c}
    /\ pc[c] \in Terminal =>
         (tornBy[c] = c /\ discBc[c] = 1 /\ discEvt[c] = 1)

\* C3: a broadcast that is over has raised nothing, has left no observer
\* whose delivery failed in the observer set, and has delivered to every
\* observer of its start that is still in the set and did not fail.
C3_FailedAdminPruned ==
  \A c \in Conns :
    ~InBroadcast(c) =>
      /\ c \notin bcErr
      /\ bcFailed[c] \cap admin_connections = {}
      /\ ((bcInit[c] \cap admin_connections) \ bcFailed[c]) \subseteq bcGot[c]

\* C4: no broadcast is aborted by a change of the observer set: none raises,
\* and one that is over has attempted every admin of the set it started with.
C4_BroadcastNotAborted ==
  /\ bcErr = {}
  /\ \A c \in Conns : ~InBroadcast(c) => bcInit[c] \subseteq bcVisited[c]

\* C5: a send_command for an identity without an entry in the device map
\* returns False to its caller and changes no map, session, stored row or
\* socket.
C5_AbsentNoEffect ==
  [][\A p \in Callers :
       (cmdCount'[p] # cmdCount[p] /\ cmdDev'[p] \notin DOMAIN device_connections)
       => /\ cmdRet'[p] = "false"
          /\ apc'[p] = Return(p)
          /\ UNCHANGED <<device_connections, admin_connections, sessions,
                         devices, events, devInbox>>]_vars

\* C5 witness: a call for an unregistered identity has returned False while
\* another identity was registered.
C5_Witness ==
  \E p \in Callers :
    /\ CallOver(p)
    /\ cmdRet[p] = "false"
    /\ cmdRegCall[p] = None
    /\ DOMAIN device_connections # {}

\* C6: a send_command that has returned returned True exactly if it
\* delivered the command; True comes with one command_sent event, False
\* with no command delivered.
C6_TrueIffDelivered ==
  \A p \in Callers :
    CallOver(p) =>
      /\ (cmdRet[p] = "true") <=> (cmdSentOn[p] # None)
      /\ cmdRet[p] = "true" => cmdLogged[p] = 1
      /\ cmdRet[p] = "false" => cmdSentOn[p] = None

\* C7: when the write on the registered connection fails, send_command
\* returns False to its caller, appends no event, and leaves the device map
\* and the sessions as they were.
C7_BrokenSocketReturnsFalse ==
  [][\A p \in Callers :
       (apc[p] = "cmd_send" /\ apc'[p] # "cmd_send" /\ ~SockWritable(cmdConn[p]))
       => /\ cmdRet'[p] = "false"
          /\ apc'[p] = Return(p)
          /\ UNCHANGED <<events, device_connections, sessions>>]_vars

\* C7 witness: a call found the identity registered, its write failed, and
\* the identity is still registered on that socket with its session online.
C7_Witness ==
  \E p \in Callers :
    /\ CallOver(p)
    /\ cmdRegCall[p] # None
    /\ cmdSentOn[p] = None
    /\ cmdRet[p] = "false"
    /\ RegisteredSocket(cmdDev[p]) = cmdRegCall[p]
    /\ cmdDev[p] \in get_online_devices

\* C8 as claimed: a command is delivered only on the socket that is
\* registered for its identity at the moment of delivery.
C8_OnlyCurrentSocket ==
  \A p \in Callers : cmdSentOn[p] # None => cmdRegSend[p] = cmdSentOn[p]

\* C8 as amended: a command is delivered only on the socket that was
\* registered for its identity when send_command looked it up, which is a
\* socket of a connection of that identity.
C8_OnlySocketLookedUp ==
  \A p \in Callers :
    cmdSentOn[p] # None =>
      /\ cmdSentOn[p] = cmdRegCall[p]
      /\ devId[cmdSentOn[p]] = cmdDev[p]

\* C8 witness: a command was delivered while both identities were registered.
C8_Witness ==
  \E p \in Callers :
    /\ cmdSentOn[p] # None
    /\ DOMAIN device_connections = Ids

\* C9: when the connections claim pairwise distinct identities, every
\* identity whose connect_device has returned has a session marked online
\* and an entry bound to its own socket, and the map holds no entry beyond
\* those of the calls that returned or are broadcasting.
DistinctIdentities ==
  \A c, d \in Conns : (c # d /\ devId[c] # None) => devId[c] # devId[d]

C9_DistinctConnects ==
  DistinctIdentities =>
    /\ \A c \in Conns :
         Completed(c) =>
           /\ devId[c] \in get_online_devices
           /\ RegisteredSocket(devId[c]) = c
    /\ DOMAIN device_connections =
         {devId[c] : c \in {d \in Conns : Completed(d) \/ pc[d] = "cd_bcast"}}

\* C9 witness: every connection has returned from connect_device, each
\* under its own identity.
C9_Witness ==
  /\ DistinctIdentities
  /\ \A c \in Conns : Completed(c)

\* C10: the registration of an identity that already has a session keeps
\* the set of sessions and the session's connected_at, sets last_activity
\* to the time of that call and the online flag to true; connected_at of a
\* session never changes.
C10_Reconnect ==
  [][/\ \A c \in Conns :
          (pc[c] = "rd_write" /\ pc'[c] = "rd_log" /\ devId[c] \in DOMAIN sessions)
          => /\ DOMAIN sessions' = DOMAIN sessions
             /\ sessions'[devId[c]].connected_at = sessions[devId[c]].connected_at
             /\ sessions'[devId[c]].last_activity = now
             /\ sessions'[devId[c]].is_online
     /\ \A i \in DOMAIN sessions :
          /\ i \in DOMAIN sessions'
          /\ sessions'[i].connected_at = sessions[i].connected_at]_vars

\* C10 witness: an identity registered again later than its first
\* registration: its session is online with a last_activity after its
\* connected_at.
C10_Witness ==
  \E i \in DOMAIN sessions :
    /\ sessions[i].last_activity > sessions[i].connected_at
    /\ sessions[i].is_online

\* The step in which handler c calls disconnect_device(device_id): it leaves
\* the handshake, connect_device or its broadcast for the disconnect path.
DiscPath == {"dd_bcast", "dd_log", "done", "crashed", "closed"}
DiscCalled(c) ==
  /\ pc[c] \notin DiscPath
  /\ pc'[c] \in {"dd_bcast", "dd_log", "done"}

\* C11: no step removes a session from the registry, and right after a
\* disconnect_device for an identity that has a session the identity is in
\* list_all and not in list_online.
C11_SessionsNeverRemoved ==
  [][/\ DOMAIN sessions \subseteq DOMAIN sessions'
     /\ \A c \in Conns :
          (DiscCalled(c) /\ devId[c] \in DOMAIN sessions)
          => /\ devId[c] \in DOMAIN sessions'
             /\ ~sessions'[devId[c]].is_online]_vars

\* C12: a disconnect_device for an identity that has no entry in the device
\* map (a call that follows another for the same identity) returns at once:
\* it changes no map, no session and no stored row and starts no broadcast.
C12_SecondDisconnectNoOp ==
  [][\A c \in Conns :
       (DiscCalled(c) /\ devId[c] \notin DOMAIN device_connections)
       => /\ pc'[c] = "done"
          /\ UNCHANGED <<device_connections, admin_connections, sessions,
                         devices, events, bcVars, tornBy, discEvt, discBc>>]_vars

\* C12 witness: a connection was registered, another handler's
\* disconnect_device removed its entry, and its own disconnect_device, called
\* afterwards, ended without a broadcast and without an event.
C12_Witness ==
  \E c \in reached :
    /\ pc[c] = "done"
    /\ tornBy[c] \notin {None, c}
    /\ discBc[c] = 0
    /\ discEvt[c] = 0

\* C13: a disconnect_device that removed an entry and has ended ran its
\* broadcast to the end and handed the disconnected event to the store, which
\* appended it exactly once unless the store itself failed.
C13_DisconnectAllEffects ==
  \A c \in Conns :
    ((\E d \in Conns : tornBy[d] = c) /\ pc[c] \in Terminal)
    => /\ discBc[c] = 1
       /\ discEvt[c] <= 1
       /\ pc[c] = "done" => discEvt[c] = 1

\* C15: a handshake that is refused (a device token that matches no profile,
\* a first message that is no registration, an invalid admin session token)
\* ends the endpoint with no identity bound and the connection never
\* registered; the step changes no session, no map, no observer set and no
\* stored row, and starts no broadcast.
C15_RefusedHandshakeNoEffect ==
  [][/\ \A c \in Conns :
          (pc[c] # "closed" /\ pc'[c] = "closed")
          => /\ devId'[c] = None
             /\ c \notin reached'
             /\ UNCHANGED <<device_connections, admin_connections, sessions,
                            devices, events, bcVars>>
     /\ \A a \in Admins :
          (apc[a] = "start" /\ apc'[a] = "done")
          => /\ a \notin admin_connections'
             /\ UNCHANGED <<device_connections, admin_connections, sessions,
                            devices, events, bcVars>>]_vars

\* C15 witness: a device handshake and the admin's handshake were refused
\* while another device was registered.
C15_Witness ==
  /\ \E c \in Conns : pc[c] = "closed"
  /\ apc[1] = "done" /\ adminOpen[1]
  /\ DOMAIN device_connections # {}

\* C16: a connection that has passed the handshake goes on to be registered:
\* the step that follows the handshake, the accept inside connect_device,
\* takes it into register_device and never to the disconnect path.
C16_HandshakeThenRegistered ==
  [][\A c \in Conns :
       (pc[c] = "cd_accept" /\ pc'[c] # "cd_accept") => pc'[c] = "rd_get"]_vars

\* C14: connect_device begins its device_connected broadcast once, in the
\* step that stores the connection under its identity, and never again once
\* the call has returned; and whenever the broadcast hands the message to an
\* admin with a healthy socket the identity has an entry in the device map.
C14_ConnectedAfterStored ==
  [][\A c \in Conns :
       /\ (pc[c] = "rd_log" /\ pc'[c] \in {"cd_bcast", "recv"})
          => RegisteredSocket(devId[c])' = c
       /\ Completed(c) => pc'[c] # "cd_bcast"
       /\ (pc'[c] = "cd_bcast" /\ bcVisited'[c] # bcVisited[c]
           /\ adminOpen[bcCur'[c]])
          => devId[c] \in DOMAIN device_connections']_vars

C18_FrameStoredAndSummarised ==
  [][/\ \A c \in Conns :
          (pc[c] = "cam_save" /\ pc'[c] # "cam_save" /\ dropped'[c] = dropped[c])
          => /\ Len(camera_frames') = Len(camera_frames) + 1
             /\ LET r == camera_frames'[Len(camera_frames')] IN
                  /\ r.device_id = devId[c]
                  /\ r.camera = msg[c].camera
                  /\ r.width = msg[c].width
                  /\ r.height = msg[c].height
                  /\ r.timestamp = msg[c].timestamp
             /\ admin_connections # {}
                => /\ pc'[c] = "tm_bcast"
                   /\ DOMAIN bcMsg'[c] = {"type", "device_id", "camera",
                                          "width", "height", "timestamp"}
                   /\ bcMsg'[c].type = "camera_frame"
                   /\ bcMsg'[c].device_id = devId[c]
                   /\ bcMsg'[c].camera = msg[c].camera
                   /\ bcMsg'[c].width = msg[c].width
                   /\ bcMsg'[c].height = msg[c].height
                   /\ bcMsg'[c].timestamp = msg[c].timestamp
     /\ camera_frames' # camera_frames
        => \E c \in Conns : pc[c] = "cam_save" /\ Decodable(msg[c])
     /\ \A c \in Conns :
          (bcMsg'[c] # bcMsg[c] /\ bcMsg'[c].type = "camera_frame")
          => pc[c] = "cam_save"]_vars

\* C18 witness: a frame is stored and its summary is being broadcast to an
\* admin.
C18_Witness ==
  \E c \in Conns :
    /\ pc[c] = "tm_bcast"
    /\ bcMsg[c].type = "camera_frame"
    /\ Len(camera_frames) = 1
    /\ camera_frames[1].timestamp = bcMsg[c].timestamp

\* The range the spec gives for coordinates, in degrees.
InRange(lat, lon) == lat \in -90..90 /\ lon \in -180..180

\* C19: no location outside latitude [-90, 90] and longitude [-180, 180] is
\* ever persisted, kept as a session's last-known location or broadcast.
C19_OutOfRangeRejected ==
  /\ \A k \in 1..Len(location_history) :
       InRange(location_history[k].lat, location_history[k].lon)
  /\ \A i \in DOMAIN sessions :
       sessions[i].location # NoLocation
       => InRange(sessions[i].location[1], sessions[i].location[2])
  /\ \A c \in Conns :
       bcMsg[c].type = "location_update"
       => InRange(bcMsg[c].location[1], bcMsg[c].location[2])

\* C20: the step in which the decode or the persist of a message fails takes
\* the handler back to its receive loop and begins no broadcast; it leaves
\* the device map, the observer set, every session, every table and every
\* socket as they were.
C20_PersistFailureContained ==
  [][\A c \in Conns :
       dropped'[c] # dropped[c]
       => /\ pc'[c] = "recv"
          /\ \A d \in Conns \ {c} : pc'[d] = pc[d]
          /\ UNCHANGED <<device_connections, admin_connections, sessions,
                         bcVars, bcMsg, camera_frames, location_history,
                         events, sockOpen>>]_vars

\* C20 witness: a message of a registered device failed to persist; the
\* device is still registered on its socket and online, its handler has
\* taken the next message and awaits its persist, and the other device is
\* registered and online in its receive loop.
C20_Witness ==
  \E c \in Conns :
    /\ dropped[c] > 0
    /\ pc[c] \in {"cam_save", "loc_save", "sys_log"}
    /\ RegisteredSocket(devId[c]) = c
    /\ devId[c] \in get_online_devices
    /\ \E d \in Conns \ {c} :
         /\ Completed(d)
         /\ RegisteredSocket(devId[d]) = d
         /\ devId[d] \in get_online_devices

\* Handler c takes a message of the given inline type in this step.
Takes(c, type) == msgCount'[c] # msgCount[c] /\ msgType'[c] = type

\* The identities in the device map with their sockets.
Registered == [i \in DOMAIN device_connections |-> device_connections[i].websocket]

\* C21: a ping from a registered device sets the last_activity of the
\* device's session to the current time and changes nothing else: every
\* other session field, the identities and sockets of the device map, the
\* observer set, the tables, the event log and the broadcasts stay as they
\* were.
C21_PingRefreshesSession ==
  [][\A c \in Conns :
       Takes(c, "ping") /\ RegisteredSocket(devId[c]) = c
       => /\ sessions' = [sessions EXCEPT ![devId[c]].last_activity = now]
          /\ Registered' = Registered
          /\ UNCHANGED <<admin_connections, storeVars, camera_frames,
                         location_history, bcVars, bcMsg>>]_vars

\* C22: a message whose type is missing or is none of camera_frame,
\* location_update, system_info and ping changes nothing: no table, event,
\* session or map entry changes, no broadcast begins, nothing is put on the
\* device's socket, and the handler stays in its receive loop on its open
\* socket.
C22_UnknownTypeNoEffect ==
  [][\A c \in Conns :
       Takes(c, "unknown")
       => /\ pc'[c] = "recv" /\ sockOpen'[c]
          /\ UNCHANGED <<hubVars, sessions, storeVars, netVars, pc, bcVars,
                         bcMsg, camera_frames, location_history, dropped,
                         devHist, snap>>]_vars

\* C22 witness: a registered, online device has sent a message of an unknown
\* type after the clock advanced and is back in its receive loop.
C22_Witness ==
  \E c \in Conns :
    /\ msgType[c] = "unknown"
    /\ pc[c] = "recv"
    /\ now > 0
    /\ RegisteredSocket(devId[c]) = c
    /\ devId[c] \in get_online_devices

\* Handler c drops a malformed message in this step: the text is no JSON,
\* or the message fails validation or base64 decoding, which the handler
\* finds before its first await.
DropsMalformed(c) == pc[c] = "recv" /\ dropped'[c] # dropped[c]

\* C23: a malformed message on a device connection in its receive loop is
\* dropped without closing the connection: the socket stays as it was, the
\* device map and every session are unchanged, nothing is persisted or
\* broadcast, and the handler is back in its receive loop, where it takes
\* the next message.
C23_MalformedDropped ==
  [][\A c \in Conns :
       DropsMalformed(c)
       => /\ pc'[c] = "recv"
          /\ UNCHANGED <<device_connections, sessions, sockOpen, bcVars,
                         bcMsg, camera_frames, location_history, events>>]_vars

\* C23 witness: the first text on a registered device's connection was no
\* JSON and was dropped; the camera frame that followed it has been saved,
\* the session shows its camera, and its summary is being broadcast, the
\* device still registered on its socket and online.
C23_Witness ==
  \E c \in Conns :
    /\ dropped[c] = 1 /\ msgCount[c] = 1
    /\ pc[c] = "tm_bcast"
    /\ bcMsg[c].type = "camera_frame"
    /\ Len(camera_frames) = 1
    /\ RegisteredSocket(devId[c]) = c
    /\ devId[c] \in get_online_devices
    /\ sessions[devId[c]].current_camera = bcMsg[c].camera

\* The event a handled message is broadcast as.
EventOf(id, m) ==
  IF m.type = "camera_frame" THEN FrameSummary(id, m)
  ELSE IF m.type = "location_update" THEN LocationEvent(id, m)
  ELSE DeviceUpdate(id, m)

\* Handler c takes the next text from its socket in this step.
TakesNext(c) ==
  \/ msgCount'[c] # msgCount[c]
  \/ pc[c] \notin {"cam_save", "loc_save", "sys_log"} /\ dropped'[c] # dropped[c]

\* C24: the events of one device connection reach an admin in the order of
\* the device's messages.  The receive loop takes message k+1 only when the
\* handling of message k is over, with no persist pending and no broadcast
\* of the handler going on; and every delivery to an admin during the
\* handler's broadcast carries the event of the message taken last.
C24_HandledInOrder ==
  [][\A c \in Conns :
       /\ TakesNext(c)
          => pc[c] = "recv" /\ msg[c] = NoMessage /\ bcMsg[c] = NoMessage
       /\ pc[c] = "tm_bcast" /\ bcGot'[c] # bcGot[c]
          => /\ msg[c] # NoMessage
             /\ bcMsg[c] = EventOf(devId[c], msg[c])
             /\ msgCount'[c] = msgCount[c]]_vars

\* C24 witness: the device has sent two different camera frames; both are
\* stored, the broadcast of the second one's summary has reached an admin
\* and the handler is back in its receive loop.
C24_Witness ==
  \E c \in Conns :
    /\ msgCount[c] = 2 /\ dropped[c] = 0
    /\ pc[c] = "recv"
    /\ bcGot[c] # {}
    /\ Len(camera_frames) = 2
    /\ camera_frames[1].timestamp # camera_frames[2].timestamp

\* C25: a system_info message that carries a battery level sets the
\* session's battery_level to it; one that carries none leaves the session's
\* battery_level as it was.
C25_BatteryKept ==
  [][\A c \in Conns :
       pc[c] = "recv" /\ pc'[c] = "sys_log" /\ devId[c] \in DOMAIN sessions
       => sessions'[devId[c]].battery_level =
            IF msg'[c].battery_level # None
            THEN msg'[c].battery_level
            ELSE sessions[devId[c]].battery_level]_vars

\* Connection d replaced connection c in the device map: both were stored
\* for the same identity and the entry holds d's socket.
Replaced(c, d) ==
  /\ c # d /\ c \in reached /\ d \in reached
  /\ devId[c] = devId[d]
  /\ RegisteredSocket(devId[d]) = d

\* C26: when a second connection of an identity has replaced the first one
\* and is in its receive loop, no step of the first connection's endpoint
\* removes the second one's entry, marks the session offline or begins a
\* device_disconnected broadcast.
C26_FirstLeavesSecond ==
  [][\A c, d \in Conns :
       Replaced(c, d) /\ Completed(d) /\ pc'[c] # pc[c]
       => /\ RegisteredSocket(devId[d])' = d
          /\ devId[d] \in get_online_devices'
          /\ pc'[c] # "dd_bcast" /\ discBc'[c] = discBc[c]]_vars

\* Positions inside connect_device and disconnect_device.
HubOps == {"cd_accept", "rd_get", "rd_write", "rd_log", "cd_bcast",
           "dd_bcast", "dd_log"}

\* No connect_device or disconnect_device call for the identity is going on.
Quiet(id) == \A c \in Conns : devId[c] = id => pc[c] \notin HubOps

\* C27: whenever no hub operation is in progress for an identity, its
\* session is marked online if and only if the identity has an entry in the
\* device map, also after a connect_device or disconnect_device call for it
\* ended with an error.
C27_OnlineIffRegistered ==
  \A id \in Ids :
    Quiet(id) => (id \in get_online_devices <=> id \in DOMAIN device_connections)

\* C28: a step of a connection attempt that is not registered by the end of
\* the step leaves every open, registered connection in the device map,
\* leaves its session online and begins no device_disconnected broadcast.
C28_FailedAttemptHarmless ==
  [][\A c, d \in Conns :
       /\ c # d /\ c \notin reached'
       /\ pc'[c] # pc[c]
       /\ RegisteredSocket(devId[d]) = d /\ sockOpen[d]
       => /\ RegisteredSocket(devId[d])' = d
          /\ devId[d] \in get_online_devices'
          /\ pc'[c] # "dd_bcast" /\ discBc'[c] = discBc[c]]_vars

\* The Record Store write of c's registration returns and the registration
\* goes on.
WriteReturns(c) ==
  /\ RegWrite(c) \/ RdWrite(c)
  /\ pc'[c] \in {"cd_accept", "rd_log"}

\* C29: registrations of the same unknown identity that run concurrently
\* create one profile and none of them fails: a registration that has looked
\* the identity up and is about to write can complete its write, whatever
\* the other registration has written meanwhile.
C29_BothRegister ==
  \A c \in Conns :
    pc[c] \in {"reg_write", "rd_write"} => ENABLED WriteReturns(c)

\* C30: no step changes the stored token of an identity that has a profile,
\* and a token is generated only in a step that creates the profile of an
\* identity that had none, which gets that token.
C30_TokenKept ==
  [][/\ \A id \in DOMAIN devices :
          id \in DOMAIN devices' /\ devices'[id] = devices[id]
     /\ tokCtr' # tokCtr
        => \E id \in Ids \ DOMAIN devices :
             /\ DOMAIN devices' = DOMAIN devices \cup {id}
             /\ devices'[id] = tokCtr']_vars

\* C30 witness: the profile of an identity was created with a generated
\* token, and two connections have registered that identity, each updating
\* the profile, which still holds that token.
C30_Witness ==
  \E c, d \in Conns :
    /\ c # d /\ devId[c] = devId[d]
    /\ seen[c] /\ seen[d]
    /\ c \in reached /\ d \in reached
    /\ devId[c] \in DOMAIN devices
    /\ devices[devId[c]] > NumIds

====
